---- MODULE Spec2Model ----
(***************************************************************************)
(* A model of src/app.js: the Messenger webhook bot.  One request is       *)
(* followed from its arrival through the body-parser verify hook           *)
(* (verifyRequestSignature) and the route handler (app.get / app.post on   *)
(* /webhook) to the HTTP response and the calls made to callSendAPI, whose *)
(* completion callbacks run one by one after the handler has returned;     *)
(* inflight counts the calls whose callback has not run yet.               *)
(*                                                                         *)
(* Strings the code looks into (message text, postback payloads, the       *)
(* signature header, digests) are sequences of one-character strings, so   *)
(* that toLower, includes, startsWith and split are computed character by  *)
(* character.  An optional value is None (absent/undefined) or Some(v).    *)
(* A JavaScript number is [nan, v] with v in units of 1/Scale.             *)
(***************************************************************************)
EXTENDS Integers, Sequences, FiniteSets, TLC

VARIABLES pc, req, res, dispatched, outbox, inflight

vars == <<pc, req, res, dispatched, outbox, inflight>>

----------------------------------------------------------------------------
(* Optional values and strings *)

None == <<>>

Some(x) == <<x>>

Get(o) == o[1]

UpperChars == <<"A", "B", "C", "D", "E", "F", "G", "H", "I", "J", "K", "L", "M", "N", "O", "P", "Q", "R", "S", "T", "U", "V", "W", "X", "Y", "Z">>

LowerChars == <<"a", "b", "c", "d", "e", "f", "g", "h", "i", "j", "k", "l", "m", "n", "o", "p", "q", "r", "s", "t", "u", "v", "w", "x", "y", "z">>

\* _.toLower on one character
toLowerChar(c) ==
    IF \E i \in 1..Len(UpperChars) : UpperChars[i] = c
    THEN LowerChars[CHOOSE i \in 1..Len(UpperChars) : UpperChars[i] = c]
    ELSE c

\* _.toLower(string)
toLower(s) == [i \in 1..Len(s) |-> toLowerChar(s[i])]

\* _.includes(string, word): word occurs in string as a substring
includes(s, w) == \E i \in 0..(Len(s) - Len(w)) : SubSeq(s, i + 1, i + Len(w)) = w

\* _.startsWith(string, prefix)
startsWith(s, p) == Len(s) >= Len(p) /\ SubSeq(s, 1, Len(p)) = p

RECURSIVE splitFrom(_, _, _)
splitFrom(s, sep, cur) ==
    IF s = <<>> THEN <<cur>>
    ELSE IF Head(s) = sep THEN <<cur>> \o splitFrom(Tail(s), sep, <<>>)
    ELSE splitFrom(Tail(s), sep, Append(cur, Head(s)))

\* string.split(sep) / _.split(string, sep) for a one-character separator
split(s, sep) == splitFrom(s, sep, <<>>)

\* array[i] with JavaScript's 0-based index: undefined past the end
At(arr, i) == IF i + 1 <= Len(arr) THEN Some(arr[i + 1]) ELSE None

----------------------------------------------------------------------------
(* Configuration, src/app.js:34-49: all four values are non-empty *)

VALIDATION_TOKEN == "validation-token"

SERVER_URL == <<"h", "t", "t", "p", ":", "/", "/", "s">>

----------------------------------------------------------------------------
(* GET /webhook *)

NoQuery == [mode |-> None, verify_token |-> None, challenge |-> None]

NoBody == [object |-> "", entry |-> <<>>]

NoRequest == [method |-> "NONE", query |-> NoQuery, signature |-> None, body |-> NoBody]

NoResponse == [status |-> 0, body |-> None]

\* res.sendStatus(code): the status with its standard reason phrase as body
sendStatus(code) ==
    [status |-> code,
     body |-> Some(IF code = 200 THEN "OK" ELSE IF code = 403 THEN "Forbidden" ELSE "Error")]

\* the handler without its test of hub.mode
getWebhook_TokenOnly(query) ==
    IF query.verify_token = Some(VALIDATION_TOKEN)
    THEN [status |-> 200, body |-> query.challenge]
    ELSE sendStatus(403)

\* the handler of app.get('/webhook')
getWebhook(query) ==
    IF query.mode = Some("subscribe") /\ query.verify_token = Some(VALIDATION_TOKEN)
    THEN [status |-> 200, body |-> query.challenge]
    ELSE sendStatus(403)

Queries ==
    [mode : {None, Some("subscribe"), Some("unsubscribe")},
     verify_token : {None, Some(VALIDATION_TOKEN), Some("wrong"), Some("")},
     challenge : {None, Some("challenge-1"), Some("challenge-2")}]

GetWebhook ==
    /\ pc = "listening"
    /\ \E q \in Queries :
        /\ req' = [NoRequest EXCEPT !.method = "GET", !.query = q]
        /\ res' = getWebhook(q)
        /\ pc' = "responded"
        /\ dispatched' = <<>>
        /\ outbox' = <<>>
        /\ inflight' = 0

----------------------------------------------------------------------------
(* JavaScript numbers, as far as sendOrderReceipt uses them: NaN, or a     *)
(* decimal held exactly as an integer count of 1/Scale.                    *)

Scale == 100000

NaN == [nan |-> TRUE, v |-> 0]

Num(v) == [nan |-> FALSE, v |-> v]

Digits == <<"0", "1", "2", "3", "4", "5", "6", "7", "8", "9">>

isDigit(c) == \E i \in 1..Len(Digits) : Digits[i] = c

digitVal(c) == (CHOOSE i \in 1..Len(Digits) : Digits[i] = c) - 1

RECURSIVE digitsVal(_)
digitsVal(s) == IF s = <<>> THEN 0 ELSE digitsVal(SubSeq(s, 1, Len(s) - 1)) * 10 + digitVal(s[Len(s)])

RECURSIVE pow10(_)
pow10(n) == IF n = 0 THEN 1 ELSE 10 * pow10(n - 1)

\* the digits a number of 1/Scale keeps after the decimal point
FracDigits == CHOOSE n \in 0..9 : pow10(n) = Scale

\* ToNumber of a string, the conversion made by price*1: an unsigned decimal
\* literal ("4.99", "5", ".5", "5.") is its value, the empty string is 0 and
\* any other text is NaN
stringToNumber(s) ==
    LET parts == split(s, ".")
        ip == parts[1]
        fp == IF Len(parts) = 2 THEN parts[2] ELSE <<>>
    IN  IF s = <<>> THEN Num(0)
        ELSE IF /\ Len(parts) <= 2
                /\ \A i \in 1..Len(ip) : isDigit(ip[i])
                /\ \A i \in 1..Len(fp) : isDigit(fp[i])
                /\ Len(ip) + Len(fp) > 0
                /\ Len(fp) <= FracDigits
             THEN Num(digitsVal(ip) * Scale + digitsVal(fp) * pow10(FracDigits - Len(fp)))
             ELSE NaN

\* ToNumber of an optional string: undefined is NaN
toNumber(o) == IF o = None THEN NaN ELSE stringToNumber(Get(o))

\* x * (h/100) for the literals 1, 0.13 and 1.13.  The product is the exact
\* decimal one; the binary product of the code can differ from it in the last
\* place, which shows after rounding only when the exact product lies on a
\* half cent (1.50 * 1.13), and for the prices drawn in Payloads it rounds
\* as the exact product does
times(x, h) == IF x.nan THEN NaN ELSE Num((x.v * h) \div 100)

\* _.round(x, precision): Math.round (half towards +Infinity) at the given
\* number of decimals
round(x, precision) ==
    LET unit == Scale \div pow10(precision)
    IN  IF x.nan THEN NaN ELSE Num(((x.v + unit \div 2) \div unit) * unit)

----------------------------------------------------------------------------
(* Outbound messages: what callSendAPI is called with *)

textMessage(recipientId, messageText) ==
    [recipient |-> recipientId, template |-> "text", text |-> messageText,
     elements |-> None, summary |-> None]

genericMessage(recipientId, elements) ==
    [recipient |-> recipientId, template |-> "generic", text |-> "",
     elements |-> elements, summary |-> None]

receiptMessage(recipientId, elements, summary) ==
    [recipient |-> recipientId, template |-> "receipt", text |-> "",
     elements |-> Some(elements), summary |-> Some(summary)]

\* sendTextMessage: one call of callSendAPI
sendTextMessage(recipientId, messageText) == <<textMessage(recipientId, messageText)>>

restaurants ==
    << [title |-> "Campus Pizza", item_url |-> "http://www.campuspizza.ca/",
        image_url |-> SERVER_URL \o <<"/", "a", "s", "s", "e", "t", "s", "/", "c", "a", "m", "p", "u", "s", "_", "p", "i", "z", "z", "a", ".", "p", "n", "g">>,
        payload |-> <<"r", "e", "s", "t", "a", "u", "r", "a", "n", "t", "_", "c", "a", "m", "p", "u", "s", "_", "p", "i", "z", "z", "a">>],
       [title |-> "Foodie Fruitie", item_url |-> "http://foodiefruitie.com/",
        image_url |-> SERVER_URL \o <<"/", "a", "s", "s", "e", "t", "s", "/", "f", "o", "o", "d", "i", "e", "_", "f", "r", "u", "i", "t", "i", "e", ".", "p", "n", "g">>,
        payload |-> <<"r", "e", "s", "t", "a", "u", "r", "a", "n", "t", "_", "f", "o", "o", "d", "i", "e", "_", "f", "r", "u", "i", "t", "i", "e">>],
       [title |-> "Williams Fresh Cafe", item_url |-> "http://williamsfreshcafe.com/",
        image_url |-> SERVER_URL \o <<"/", "a", "s", "s", "e", "t", "s", "/", "w", "i", "l", "l", "i", "a", "m", "s", ".", "p", "n", "g">>,
        payload |-> <<"r", "e", "s", "t", "a", "u", "r", "a", "n", "t", "_", "w", "i", "l", "l", "i", "a", "m", "s">>] >>

sendRestaurantRecommendation(recipientId) ==
    <<genericMessage(recipientId, Some(restaurants))>>

\* one element of the recommendations table: the button's payload is built
\* from the same title, price and image
item(title, price, asset) ==
    [title |-> title, subtitle |-> price, image_url |-> SERVER_URL \o asset,
     payload |-> <<"i", "t", "e", "m", "|">> \o title \o <<"|">> \o price \o <<"|">> \o SERVER_URL \o asset]

recommendations ==
    << <<<<"r", "e", "s", "t", "a", "u", "r", "a", "n", "t", "_", "c", "a", "m", "p", "u", "s", "_", "p", "i", "z", "z", "a">>,
         << item(<<"V", "e", "g", "e", "t", "a", "r", "i", "a", "n", " ", "P", "i", "z", "z", "a">>, <<"4", ".", "9", "9">>, <<"/", "a", "s", "s", "e", "t", "s", "/", "v", "e", "g", "e", "t", "a", "r", "i", "a", "n", "_", "p", "i", "z", "z", "a", ".", "p", "n", "g">>),
            item(<<"C", "h", "e", "e", "s", "e", " ", "P", "i", "z", "z", "a">>, <<"4", ".", "9", "9">>, <<"/", "a", "s", "s", "e", "t", "s", "/", "c", "h", "e", "e", "s", "e", "_", "p", "i", "z", "z", "a", ".", "p", "n", "g">>),
            item(<<"P", "e", "p", "p", "e", "r", "o", "n", "i", " ", "P", "i", "z", "z", "a">>, <<"4", ".", "9", "9">>, <<"/", "a", "s", "s", "e", "t", "s", "/", "p", "e", "p", "p", "e", "r", "o", "n", "i", "_", "p", "i", "z", "z", "a", ".", "p", "n", "g">>) >> >>,
       <<<<"r", "e", "s", "t", "a", "u", "r", "a", "n", "t", "_", "f", "o", "o", "d", "i", "e", "_", "f", "r", "u", "i", "t", "i", "e">>,
         << item(<<"T", "e", "r", "i", "y", "a", "k", "i", " ", "S", "a", "l", "m", "o", "n">>, <<"9", ".", "9", "9">>, <<"/", "a", "s", "s", "e", "t", "s", "/", "t", "e", "r", "i", "y", "a", "k", "i", "_", "s", "a", "l", "m", "o", "n", ".", "p", "n", "g">>),
            item(<<"B", "B", "Q", " ", "P", "o", "r", "k", " ", "F", "r", "i", "e", "d", " ", "R", "i", "c", "e">>, <<"9", ".", "9", "9">>, <<"/", "a", "s", "s", "e", "t", "s", "/", "p", "o", "r", "k", "_", "f", "r", "i", "e", "d", "_", "r", "i", "c", "e", ".", "p", "n", "g">>),
            item(<<"C", "u", "r", "r", "y", " ", "R", "a", "m", "e", "n">>, <<"9", ".", "9", "9">>, <<"/", "a", "s", "s", "e", "t", "s", "/", "c", "u", "r", "r", "y", "_", "r", "a", "m", "e", "n", ".", "p", "n", "g">>) >> >>,
       <<<<"r", "e", "s", "t", "a", "u", "r", "a", "n", "t", "_", "w", "i", "l", "l", "i", "a", "m", "s">>,
         << item(<<"C", "h", "i", "c", "k", "e", "n", " ", "Q", "u", "e", "s", "a", "d", "i", "l", "l", "a">>, <<"6", ".", "9", "9">>, <<"/", "a", "s", "s", "e", "t", "s", "/", "c", "h", "i", "c", "k", "e", "n", "_", "q", "u", "e", "s", "a", "d", "i", "l", "l", "a", ".", "p", "n", "g">>),
            item(<<"W", "i", "l", "l", "i", "a", "m", "'", "s", " ", "B", "i", "g", " ", "B", "r", "e", "a", "k", "f", "a", "s", "t">>, <<"9", ".", "9", "9">>, <<"/", "a", "s", "s", "e", "t", "s", "/", "b", "i", "g", "_", "b", "r", "e", "a", "k", "f", "a", "s", "t", ".", "p", "n", "g">>),
            item(<<"M", "a", "c", "'", "n", "'", "C", "h", "e", "e", "s", "e">>, <<"4", ".", "9", "9">>, <<"/", "a", "s", "s", "e", "t", "s", "/", "m", "a", "c", "_", "c", "h", "e", "e", "s", "e", ".", "p", "n", "g">>) >> >> >>

\* the table read by the first key the payload is a prefix of
lookup_ByPrefix(restaurant) ==
    IF \E i \in 1..Len(recommendations) : startsWith(recommendations[i][1], restaurant)
    THEN Some(recommendations[CHOOSE i \in 1..Len(recommendations) :
                                  startsWith(recommendations[i][1], restaurant)][2])
    ELSE None

\* recommendations[restaurant]: the value stored under the key, undefined
\* when the table has no such key
lookup(restaurant) ==
    IF \E i \in 1..Len(recommendations) : recommendations[i][1] = restaurant
    THEN Some(recommendations[CHOOSE i \in 1..Len(recommendations) :
                                  recommendations[i][1] = restaurant][2])
    ELSE None

sendRecommendationsForRestaurant(recipientId, restaurant) ==
    <<genericMessage(recipientId, lookup(restaurant))>>

TaxRate == 13

TotalRate == 113

\* the receipt with its total added up from the rounded subtotal and tax
sendOrderReceipt_TotalFromParts(recipientId, food, price, img_url) ==
    LET n == toNumber(price)
        subtotal == round(times(n, 100), 2)
        total_tax == round(times(n, TaxRate), 2)
    IN  <<receiptMessage(recipientId,
            <<[title |-> food, price |-> subtotal, image_url |-> img_url]>>,
            [subtotal |-> subtotal,
             total_tax |-> total_tax,
             total_cost |-> IF n.nan THEN NaN ELSE Num(subtotal.v + total_tax.v)])>>

sendOrderReceipt(recipientId, food, price, img_url) ==
    LET n == toNumber(price)
    IN  <<receiptMessage(recipientId,
            <<[title |-> food, price |-> round(times(n, 100), 2), image_url |-> img_url]>>,
            [subtotal |-> round(times(n, 100), 2),
             total_tax |-> round(times(n, TaxRate), 2),
             total_cost |-> round(times(n, TotalRate), 2)])>>

----------------------------------------------------------------------------
(* The body-parser verify hook *)

\* the digests crypto produces: digest('hex') writes lower-case hexadecimal
Digests == << <<"a", "3", "f", "0", "9", "c">>, <<"0", "b", "7", "e", "4", "1">>, <<"5", "d", "2", "a", "c", "8">> >>

\* crypto.createHmac('sha1', APP_SECRET).update(buf).digest('hex'): a fixed
\* function of the body, whatever method the header names; the digest itself
\* is stood for by a short lower-case hex string picked by the body
expectedHash(buf) ==
    Digests[((Len(buf.entry) + IF buf.object = "page" THEN 0 ELSE 1) % Len(Digests)) + 1]

\* the verifier comparing the two digests without regard to letter case
verifyRequestSignatureThrows_IgnoreCase(signature, buf) ==
    IF signature = None \/ signature = Some(<<>>)
    THEN FALSE
    ELSE LET elements == split(Get(signature), "=")
             signatureHash == At(elements, 1)
         IN  \/ signatureHash = None
             \/ toLower(Get(signatureHash)) # toLower(expectedHash(buf))

\* the verifier logging a mismatch as it logs a missing header
verifyRequestSignatureThrows_LogOnly(signature, buf) == FALSE

\* verifyRequestSignature(req, res, buf): TRUE when it throws
verifyRequestSignatureThrows(signature, buf) ==
    IF signature = None \/ signature = Some(<<>>)
    THEN FALSE
    ELSE LET elements == split(Get(signature), "=")
             signatureHash == At(elements, 1)
         IN  signatureHash # Some(expectedHash(buf))

----------------------------------------------------------------------------
(* The handlers of the three kinds of messaging event.  Each gives the      *)
(* calls of callSendAPI it makes, in order, and whether it threw.          *)

Returned(sends) == [threw |-> FALSE, sends |-> sends]

Threw == [threw |-> TRUE, sends |-> <<>>]

receivedAuthentication(event) ==
    IF event.sender = None \/ event.recipient = None
    THEN Threw
    ELSE Returned(sendTextMessage(Get(event.sender), "Authentication successful"))

foodKeywords ==
    << <<"h", "u", "n", "g", "r", "y">>, <<"f", "o", "o", "d">>, <<"m", "e", "a", "l">>, <<"s", "n", "a", "c", "k">>, <<"c", "u", "i", "s", "i", "n", "e">>, <<"d", "r", "i", "n", "k">>, <<"c", "h", "o", "w">>,
       <<"b", "r", "e", "a", "k", "f", "a", "s", "t">>, <<"l", "u", "n", "c", "h">>, <<"d", "i", "n", "n", "e", "r">>, <<"b", "r", "u", "n", "c", "h">>, <<"b", "u", "f", "f", "e", "t">> >>

\* the keyword test on the text as typed
hasFoodKeyword_CaseSensitive(messageText) ==
    \E k \in 1..Len(foodKeywords) : includes(messageText, foodKeywords[k])

\* _.some(foodKeywords, word => _.includes(_.toLower(messageText), word))
hasFoodKeyword(messageText) ==
    \E k \in 1..Len(foodKeywords) : includes(toLower(messageText), foodKeywords[k])

\* the handler without its test of the echo flag
receivedMessage_NoEchoTest(event) ==
    IF event.sender = None \/ event.recipient = None
    THEN Threw
    ELSE LET senderID == Get(event.sender)
             message == Get(event.message)
         IN  IF message.quick_reply # None
             THEN Returned(sendTextMessage(senderID, "Quick reply tapped"))
             ELSE IF message.text # None /\ message.text # Some(<<>>)
                  THEN IF hasFoodKeyword(Get(message.text))
                       THEN Returned(sendRestaurantRecommendation(senderID))
                       ELSE Returned(sendTextMessage(senderID, "I'm not sure what you mean"))
             ELSE Returned(<<>>)

receivedMessage(event) ==
    IF event.sender = None \/ event.recipient = None
    THEN Threw
    ELSE LET senderID == Get(event.sender)
             message == Get(event.message)
         IN  IF message.is_echo THEN Returned(<<>>)
             ELSE IF message.quick_reply # None
                  THEN Returned(sendTextMessage(senderID, "Quick reply tapped"))
             ELSE IF message.text # None /\ message.text # Some(<<>>)
                  THEN IF hasFoodKeyword(Get(message.text))
                       THEN Returned(sendRestaurantRecommendation(senderID))
                       ELSE Returned(sendTextMessage(senderID, "I'm not sure what you mean"))
             ELSE Returned(<<>>)

receivedPostback(event) ==
    IF event.sender = None \/ event.recipient = None
    THEN Threw
    ELSE LET senderID == Get(event.sender)
             payload == Get(event.postback).payload
         IN  IF payload # None /\ payload # Some(<<>>)
             THEN IF startsWith(Get(payload), <<"r", "e", "s", "t", "a", "u", "r", "a", "n", "t">>)
                  THEN Returned(sendTextMessage(senderID, "Want any of these?")
                                \o sendRecommendationsForRestaurant(senderID, Get(payload)))
                  ELSE IF startsWith(Get(payload), <<"i", "t", "e", "m">>)
                  THEN LET payloadData == split(Get(payload), "|")
                           food == At(payloadData, 1)
                           price == At(payloadData, 2)
                           img_url == At(payloadData, 3)
                       IN  Returned(sendTextMessage(senderID, "We got your order!")
                                    \o sendOrderReceipt(senderID, food, price, img_url))
                  ELSE Returned(sendTextMessage(senderID,
                                                "Sorry, we couldn't understand your message"))
             ELSE Returned(<<>>)

\* the loop body testing message before optin
handleEvent_MessageFirst(messagingEvent) ==
    IF messagingEvent.message # None
    THEN [kind |-> "Message", result |-> receivedMessage(messagingEvent)]
    ELSE IF messagingEvent.optin # None
    THEN [kind |-> "Authentication", result |-> receivedAuthentication(messagingEvent)]
    ELSE IF messagingEvent.postback # None
    THEN [kind |-> "Postback", result |-> receivedPostback(messagingEvent)]
    ELSE [kind |-> "Unknown", result |-> Returned(<<>>)]

\* the body of the messaging loop for one event: the first test that holds
\* decides which handler runs
handleEvent(messagingEvent) ==
    IF messagingEvent.optin # None
    THEN [kind |-> "Authentication", result |-> receivedAuthentication(messagingEvent)]
    ELSE IF messagingEvent.message # None
    THEN [kind |-> "Message", result |-> receivedMessage(messagingEvent)]
    ELSE IF messagingEvent.postback # None
    THEN [kind |-> "Postback", result |-> receivedPostback(messagingEvent)]
    ELSE [kind |-> "Unknown", result |-> Returned(<<>>)]

\* data.entry.forEach(... pageEntry.messaging.forEach(...)): the events in
\* the order the two loops visit them, each with its place in the body
RECURSIVE visitOrder(_, _)
visitOrder(entry, i) ==
    IF i > Len(entry) THEN <<>>
    ELSE [j \in 1..Len(entry[i].messaging) |->
             [entry |-> i, index |-> j, event |-> entry[i].messaging[j]]]
         \o visitOrder(entry, i + 1)

\* the loops run until the end or until a handler throws; acc gathers, in
\* order, each event dispatched with the calls of callSendAPI made for it
RECURSIVE runLoop(_, _, _)
runLoop(visits, k, acc) ==
    IF k > Len(visits) THEN acc
    ELSE LET h == handleEvent(visits[k].event)
             next == [dispatched |-> Append(acc.dispatched,
                                            [entry |-> visits[k].entry,
                                             index |-> visits[k].index,
                                             kind |-> h.kind,
                                             sends |-> h.result.sends]),
                      outbox |-> acc.outbox \o h.result.sends,
                      threw |-> h.result.threw]
         IN  IF h.result.threw THEN next ELSE runLoop(visits, k + 1, next)

\* the handler of app.post('/webhook'): a throw reaches the framework, which
\* answers 500; a body that is not a page subscription gets no answer
postWebhook(data) ==
    IF data.object = "page"
    THEN LET run == runLoop(visitOrder(data.entry, 1), 1,
                            [dispatched |-> <<>>, outbox |-> <<>>, threw |-> FALSE])
         IN  [dispatched |-> run.dispatched, outbox |-> run.outbox,
              res |-> IF run.threw THEN sendStatus(500) ELSE sendStatus(200),
              pc |-> "responded"]
    ELSE [dispatched |-> <<>>, outbox |-> <<>>, res |-> NoResponse, pc |-> "hung"]

----------------------------------------------------------------------------
(* The requests POSTed to /webhook *)

MaxEntries == 2

MaxEvents == 2

SeqsUpTo(S, n) == UNION {[1..k -> S] : k \in 0..n}

toUpperChar(c) ==
    IF \E i \in 1..Len(LowerChars) : LowerChars[i] = c
    THEN UpperChars[CHOOSE i \in 1..Len(LowerChars) : LowerChars[i] = c]
    ELSE c

toUpper(s) == [i \in 1..Len(s) |-> toUpperChar(s[i])]

\* message texts: every keyword alone, in capitals and inside a longer word,
\* and texts that hold no keyword
Texts ==
    UNION {{foodKeywords[k], toUpper(foodKeywords[k]), <<"u", "n">> \o foodKeywords[k] \o <<"-", "l", "e", "s", "s">>} :
           k \in 1..Len(foodKeywords)}
    \cup {<<"I", "'", "m", " ", "H", "U", "N", "G", "R", "Y", " ", "n", "o", "w">>, <<"h", "e", "l", "l", "o">>, <<"h", "u", "n", "g", "r">>, <<"f", "o", " ", "o", "d">>, <<"d", "i", "n", "n", "e", " ", "r">>}

Messages ==
    [is_echo : BOOLEAN,
     text : {None, Some(<<>>), Some(<<"I", "'", "m", " ", "H", "U", "N", "G", "R", "Y", " ", "n", "o", "w">>), Some(<<"h", "e", "l", "l", "o">>)},
     quick_reply : {None, Some("RATING_5")},
     attachments : BOOLEAN]
    \cup [is_echo : {FALSE}, text : {Some(t) : t \in Texts},
          quick_reply : {None}, attachments : {FALSE}]

\* postback payloads: the ones the bot's own buttons carry, and others
Payloads ==
    {None, Some(<<>>)}
    \cup {Some(restaurants[i].payload) : i \in 1..Len(restaurants)}
    \cup UNION {{Some(recommendations[i][2][j].payload) : j \in 1..Len(recommendations[i][2])} :
                i \in 1..Len(recommendations)}
    \cup {Some(<<"r", "e", "s", "t", "a", "u", "r", "a", "n", "t">>), Some(<<"r", "e", "s", "t", "a", "u", "r", "a", "n", "t", "_", "u", "n", "k", "n", "o", "w", "n">>), Some(<<"R", "e", "s", "t", "a", "u", "r", "a", "n", "t", "_", "w", "i", "l", "l", "i", "a", "m", "s">>),
          Some(<<"i", "t", "e", "m", "|", "C", "h", "e", "e", "s", "e", " ", "P", "i", "z", "z", "a", "|", "4", ".", "9", "9", "5", "|", "h", "t", "t", "p", ":", "/", "/", "x", "/", "i", "m", "g", ".", "p", "n", "g">>), Some(<<"i", "t", "e", "m", "|", "T", "e", "a", "|", ".", "5", "|", "u">>),
          Some(<<"i", "t", "e", "m", "|", "T", "e", "a", "|", "f", "r", "e", "e", "|", "u">>), Some(<<"i", "t", "e", "m", "|", "C", "h", "e", "e", "s", "e", " ", "P", "i", "z", "z", "a", "|", "4", ".", "9", "9">>),
          Some(<<"i", "t", "e", "m", "|", "C", "h", "e", "e", "s", "e", " ", "P", "i", "z", "z", "a">>), Some(<<"i", "t", "e", "m">>), Some(<<"i", "t", "e", "m", "s">>),
          Some(<<"h", "e", "l", "l", "o">>), Some(<<"G", "E", "T", "_", "S", "T", "A", "R", "T", "E", "D">>)}

Postbacks == {[payload |-> p] : p \in Payloads}

aMessage == [is_echo |-> FALSE, text |-> Some(<<"a", "n", "y", " ", "f", "o", "o", "d", "?">>), quick_reply |-> None,
             attachments |-> FALSE]

aPostback == [payload |-> Some(<<"r", "e", "s", "t", "a", "u", "r", "a", "n", "t", "_", "c", "a", "m", "p", "u", "s", "_", "p", "i", "z", "z", "a">>)]

Events ==
    [sender : {None, Some("user-1")}, recipient : {Some("page-1")},
     optin : {None, Some("ref")},
     message : {Some(m) : m \in Messages}, postback : {None, Some(aPostback)}]
    \cup [sender : {None, Some("user-1")}, recipient : {Some("page-1")},
          optin : {None, Some("ref")},
          message : {None, Some(aMessage)}, postback : {None} \cup {Some(p) : p \in Postbacks}]
    \cup [sender : {Some("user-1")}, recipient : {None},
          optin : {None, Some("ref")},
          message : {None, Some(aMessage)}, postback : {None, Some(aPostback)}]

\* the events that batches of several are made of: one that sends once, one
\* that sends twice and one whose handler throws
BatchEvents ==
    {[sender |-> Some("user-1"), recipient |-> Some("page-1"), optin |-> None,
      message |-> Some(aMessage), postback |-> None],
     [sender |-> Some("user-1"), recipient |-> Some("page-1"), optin |-> None,
      message |-> None, postback |-> Some(aPostback)],
     [sender |-> None, recipient |-> Some("page-1"), optin |-> None,
      message |-> Some(aMessage), postback |-> None]}

pageEntry(messaging) == [id |-> "page-1", time |-> 0, messaging |-> messaging]

Bodies ==
    [object : {"page", "user"}, entry : {<<pageEntry(<<e>>)>> : e \in Events}]
    \cup [object : {"page"},
          entry : SeqsUpTo({pageEntry(m) : m \in SeqsUpTo(BatchEvents, MaxEvents)}, MaxEntries)]

\* x-hub-signature headers for a body: none, the right digest, the right
\* digest in capitals, under another method name, another body's digest,
\* and a header without "="
Signatures(buf) ==
    {None,
     Some(<<"s", "h", "a", "1", "=">> \o expectedHash(buf)),
     Some(<<"s", "h", "a", "1", "=">> \o toUpper(expectedHash(buf))),
     Some(<<"m", "d", "5", "=">> \o expectedHash(buf)),
     Some(<<"s", "h", "a", "1">>)}
    \cup {Some(<<"s", "h", "a", "1", "=">> \o Digests[i]) : i \in 1..Len(Digests)}

PostArrives ==
    /\ pc = "listening"
    /\ \E b \in Bodies : \E sig \in Signatures(b) :
        /\ req' = [NoRequest EXCEPT !.method = "POST", !.signature = sig, !.body = b]
        /\ pc' = "bodyParser"
        /\ res' = NoResponse
        /\ dispatched' = <<>>
        /\ outbox' = <<>>
        /\ inflight' = 0

\* bodyParser.json({ verify: verifyRequestSignature }): a throw of the verify
\* hook ends the request with 403 before any route handler runs
BodyParserJson ==
    /\ pc = "bodyParser"
    /\ IF verifyRequestSignatureThrows(req.signature, req.body)
       THEN /\ pc' = "rejected"
            /\ res' = sendStatus(403)
       ELSE /\ pc' = "route"
            /\ res' = res
    /\ UNCHANGED <<req, dispatched, outbox, inflight>>

PostWebhook ==
    /\ pc = "route"
    /\ LET out == postWebhook(req.body)
       IN  /\ pc' = out.pc
           /\ res' = out.res
           /\ dispatched' = out.dispatched
           /\ outbox' = out.outbox
           /\ inflight' = Len(out.outbox)
    /\ UNCHANGED req

\* what the request library hands to the callback of callSendAPI: a transport
\* error comes without response and body, an answer comes with both
Outcomes ==
    {[error |-> TRUE, response |-> None, body |-> None],
     [error |-> FALSE, response |-> Some([statusCode |-> 200]),
      body |-> Some([message_id |-> Some("mid.1"), error |-> None])],
     [error |-> FALSE, response |-> Some([statusCode |-> 200]),
      body |-> Some([message_id |-> None, error |-> None])],
     [error |-> FALSE, response |-> Some([statusCode |-> 400]),
      body |-> Some([message_id |-> None, error |-> Some("OAuthException")])],
     [error |-> FALSE, response |-> Some([statusCode |-> 500]),
      body |-> Some([message_id |-> None, error |-> None])]}

\* the callback of callSendAPI: the line it logs, or the TypeError of reading
\* response.statusCode and body.error of undefined
sendCallback(outcome) ==
    IF ~outcome.error /\ Get(outcome.response).statusCode = 200
    THEN [threw |-> FALSE,
          log |-> IF Get(outcome.body).message_id # None
                  THEN "Successfully sent message"
                  ELSE "Successfully called Send API"]
    ELSE IF outcome.response = None \/ outcome.body = None
         THEN [threw |-> TRUE, log |-> ""]
         ELSE [threw |-> FALSE, log |-> "Failed calling Send API"]

\* one call of the send API completes and its callback runs, after the
\* handler that made the call has returned; an exception thrown in the
\* callback is caught by nobody and ends the process, and the callbacks of
\* the other calls never run
SendCompletes ==
    /\ pc = "responded"
    /\ inflight > 0
    /\ \E outcome \in Outcomes :
          IF sendCallback(outcome).threw
          THEN pc' = "crashed" /\ inflight' = 0
          ELSE pc' = pc /\ inflight' = inflight - 1
    /\ UNCHANGED <<req, res, dispatched, outbox>>

\* app.listen: nothing of a request outlives it, the server turns to the next
Listen ==
    /\ pc \in {"responded", "rejected", "hung"}
    /\ pc' = "listening"
    /\ req' = NoRequest
    /\ res' = NoResponse
    /\ dispatched' = <<>>
    /\ outbox' = <<>>
    /\ inflight' = 0

----------------------------------------------------------------------------

Init ==
    /\ pc = "listening"
    /\ req = NoRequest
    /\ res = NoResponse
    /\ dispatched = <<>>
    /\ outbox = <<>>
    /\ inflight = 0

----------------------------------------------------------------------------
(* Properties *)

Answered == pc = "responded"

GetValidated ==
    /\ req.query.mode = Some("subscribe")
    /\ req.query.verify_token = Some(VALIDATION_TOKEN)

\* C1: a GET /webhook is answered 200 with the request's hub.challenge as body
\* exactly when hub.mode is "subscribe" and hub.verify_token is the validation
\* token; every other GET is answered 403 and the challenge is not returned.
C1_GetWebhookChallenge ==
    (Answered /\ req.method = "GET") =>
        /\ GetValidated => (res.status = 200 /\ res.body = req.query.challenge)
        /\ ~GetValidated => (res.status = 403 /\ res.body = Some("Forbidden"))

C1_Witness ==
    /\ Answered /\ req.method = "GET" /\ GetValidated
    /\ req.query.challenge = Some("challenge-1")
    /\ res = [status |-> 200, body |-> Some("challenge-1")]

\* the places of all messaging events of the body, entries in order and the
\* events of an entry in order
AllPlaces ==
    LET v == visitOrder(req.body.entry, 1)
    IN  [k \in 1..Len(v) |-> <<v[k].entry, v[k].index>>]

DispatchedPlaces == [k \in 1..Len(dispatched) |-> <<dispatched[k].entry, dispatched[k].index>>]

\* C2: a POST /webhook with object "page" dispatches every messaging event of
\* every entry exactly once, in array order, and is answered 200 whatever
\* happens to an event, one whose handling fails included.
C2_AllDispatchedAnd200 ==
    (pc \in {"responded", "hung"} /\ req.method = "POST" /\ req.body.object = "page") =>
        /\ res.status = 200
        /\ DispatchedPlaces = AllPlaces

\* the request went through the verify hook: it was let through to the route
\* handler, or it was turned away
Verified == req.method = "POST" /\ pc \in {"route", "responded", "hung", "rejected"}

Accepted == req.method = "POST" /\ pc \in {"route", "responded", "hung"}

\* the header reads "<method>=<hex-digest>"
WellFormedSignature ==
    /\ req.signature # None
    /\ Len(split(Get(req.signature), "=")) = 2
    /\ split(Get(req.signature), "=")[2] # <<>>

SuppliedDigest == split(Get(req.signature), "=")[2]

\* C3, as claimed: a request with a header "<method>=<hex-digest>" is accepted
\* exactly when the supplied digest equals the computed one, letter case
\* ignored.
C3_CaseInsensitiveCompare ==
    (Verified /\ WellFormedSignature) =>
        (Accepted <=> toLower(SuppliedDigest) = toLower(expectedHash(req.body)))

\* C3, amended: a request with a header "<method>=<hex-digest>" is accepted
\* exactly when the supplied digest is the computed lower-case hex digest,
\* character for character; a digest that differs only in letter case is
\* turned away.
C3_ExactCompare ==
    (Verified /\ WellFormedSignature) =>
        (Accepted <=> SuppliedDigest = expectedHash(req.body))

C3_Witness ==
    /\ Verified /\ WellFormedSignature
    /\ SuppliedDigest # expectedHash(req.body)
    /\ toLower(SuppliedDigest) = expectedHash(req.body)
    /\ pc = "rejected"

SignatureMismatch ==
    /\ req.method = "POST"
    /\ req.signature # None /\ req.signature # Some(<<>>)
    /\ At(split(Get(req.signature), "="), 1) # Some(expectedHash(req.body))

\* C4: when the supplied digest does not match the computed one the request
\* never reaches the route handler: none of its messaging events is
\* dispatched and no call of the send API is made for it.
C4_MismatchAborts ==
    SignatureMismatch =>
        /\ pc \in {"bodyParser", "rejected"}
        /\ dispatched = <<>>
        /\ outbox = <<>>

C4_Witness ==
    /\ SignatureMismatch
    /\ pc = "rejected"
    /\ res.status = 403
    /\ req.body.object = "page"
    /\ Len(AllPlaces) >= 2

\* the messaging event a record of dispatched stands for
EventOf(d) == req.body.entry[d.entry].messaging[d.index]

Dispatches == {dispatched[k] : k \in 1..Len(dispatched)}

\* the event carries the sender and recipient ids of the data model
HasIds(e) == e.sender # None /\ e.recipient # None

IsMessage(e) == e.optin = None /\ e.message # None

IsPostback(e) == e.optin = None /\ e.message = None /\ e.postback # None

\* C5: a Message event whose echo flag is set never produces a call of the
\* send API, whatever text, quick reply or attachments it carries.
C5_EchoNeverSends ==
    \A d \in Dispatches :
        (IsMessage(EventOf(d)) /\ Get(EventOf(d).message).is_echo) => d.sends = <<>>

C5_Witness ==
    /\ Answered /\ res.status = 200 /\ outbox = <<>>
    /\ \E d \in Dispatches :
          LET e == EventOf(d)
          IN  /\ IsMessage(e) /\ HasIds(e)
              /\ Get(e.message) = [is_echo |-> TRUE, text |-> Some(<<"I", "'", "m", " ", "H", "U", "N", "G", "R", "Y", " ", "n", "o", "w">>),
                                   quick_reply |-> Some("RATING_5"), attachments |-> TRUE]

\* the text, put in lower case, holds the word at some place
HoldsWord(t, w) ==
    \E i \in 0..(Len(t) - Len(w)) : \A j \in 1..Len(w) : toLowerChar(t[i + j]) = w[j]

TwelveKeywords ==
    {<<"h", "u", "n", "g", "r", "y">>, <<"f", "o", "o", "d">>, <<"m", "e", "a", "l">>, <<"s", "n", "a", "c", "k">>, <<"c", "u", "i", "s", "i", "n", "e">>, <<"d", "r", "i", "n", "k">>, <<"c", "h", "o", "w">>,
     <<"b", "r", "e", "a", "k", "f", "a", "s", "t">>, <<"l", "u", "n", "c", "h">>, <<"d", "i", "n", "n", "e", "r">>, <<"b", "r", "u", "n", "c", "h">>, <<"b", "u", "f", "f", "e", "t">>}

IsFreeText(e) ==
    /\ IsMessage(e) /\ HasIds(e)
    /\ ~Get(e.message).is_echo
    /\ Get(e.message).quick_reply = None
    /\ Get(e.message).text # None /\ Get(e.message).text # Some(<<>>)

ThreeRestaurants == <<"Campus Pizza", "Foodie Fruitie", "Williams Fresh Cafe">>

IsRestaurantCarousel(m, to) ==
    /\ m.recipient = to /\ m.template = "generic" /\ m.elements # None
    /\ [i \in 1..Len(Get(m.elements)) |-> Get(m.elements)[i].title] = ThreeRestaurants

C7_FirstMatchWins ==
    \A d \in Dispatches :
        LET e == EventOf(d)
        IN  /\ e.optin # None =>
                 /\ d.kind = "Authentication"
                 /\ HasIds(e) =>
                        d.sends = <<textMessage(Get(e.sender), "Authentication successful")>>
            /\ IsMessage(e) => (d.kind = "Message" /\ d.sends = receivedMessage(e).sends)
            /\ IsPostback(e) => (d.kind = "Postback" /\ d.sends = receivedPostback(e).sends)
            /\ (e.optin = None /\ e.message = None /\ e.postback = None) =>
                 (d.kind = "Unknown" /\ d.sends = <<>>)

C7_Witness ==
    /\ Answered /\ res.status = 200
    /\ \E d \in Dispatches :
          LET e == EventOf(d)
          IN  /\ e.optin # None /\ e.message # None /\ e.postback # None /\ HasIds(e)
              /\ d.kind = "Authentication"
              /\ outbox = <<textMessage("user-1", "Authentication successful")>>

PayloadOf(e) == Get(Get(e.postback).payload)

IsPayloadPostback(e, prefix) ==
    /\ IsPostback(e) /\ HasIds(e)
    /\ Get(e.postback).payload # None
    /\ Len(PayloadOf(e)) >= Len(prefix)
    /\ \A i \in 1..Len(prefix) : PayloadOf(e)[i] = prefix[i]

\* the entries the table keeps under exactly this key, none when there is no
\* such key
StoredUnder(key) ==
    IF \E i \in 1..Len(recommendations) : recommendations[i][1] = key
    THEN Some(recommendations[CHOOSE i \in 1..Len(recommendations) :
                                  recommendations[i][1] = key][2])
    ELSE None

TitlesOf(elements) == [i \in 1..Len(elements) |-> elements[i].title]

\* C8: a Postback whose payload starts with "restaurant" gets exactly two
\* messages, in this order: the acknowledgement text, then a generic carousel
\* of the entries stored under the exact payload as key, in table order; for
\* "restaurant_campus_pizza" these are its 3 items.
C8_RestaurantPostback ==
    \A d \in Dispatches :
        LET e == EventOf(d)
        IN  IsPayloadPostback(e, <<"r", "e", "s", "t", "a", "u", "r", "a", "n", "t">>) =>
                /\ Len(d.sends) = 2
                /\ d.sends[1] = textMessage(Get(e.sender), "Want any of these?")
                /\ d.sends[2].recipient = Get(e.sender)
                /\ d.sends[2].template = "generic"
                /\ d.sends[2].elements = StoredUnder(PayloadOf(e))
                /\ PayloadOf(e) = <<"r", "e", "s", "t", "a", "u", "r", "a", "n", "t", "_", "c", "a", "m", "p", "u", "s", "_", "p", "i", "z", "z", "a">> =>
                       /\ d.sends[2].elements # None
                       /\ TitlesOf(Get(d.sends[2].elements))
                              = <<<<"V", "e", "g", "e", "t", "a", "r", "i", "a", "n", " ", "P", "i", "z", "z", "a">>, <<"C", "h", "e", "e", "s", "e", " ", "P", "i", "z", "z", "a">>, <<"P", "e", "p", "p", "e", "r", "o", "n", "i", " ", "P", "i", "z", "z", "a">>>>

C8_Witness ==
    /\ Answered /\ res.status = 200
    /\ \E d \in Dispatches :
          /\ IsPayloadPostback(EventOf(d), <<"r", "e", "s", "t", "a", "u", "r", "a", "n", "t", "_", "c", "a", "m", "p", "u", "s", "_", "p", "i", "z", "z", "a">>)
          /\ outbox = d.sends
          /\ Len(outbox) = 2
          /\ outbox[1].template = "text"
          /\ Len(Get(outbox[2].elements)) = 3

PayloadFields(e) == split(PayloadOf(e), "|")

\* an item postback "item|<name>|<price>|<image_url>" with a decimal price
IsItemOrder(e) ==
    /\ IsPayloadPostback(e, <<"i", "t", "e", "m">>)
    /\ Len(PayloadFields(e)) = 4
    /\ PayloadFields(e)[1] = <<"i", "t", "e", "m">>
    /\ ~stringToNumber(PayloadFields(e)[3]).nan

\* v, a count of 1/Scale, rounded to whole hundredths, a half going up
HalfUpToCents(v) ==
    LET cent == Scale \div 100
    IN  IF 2 * (v % cent) >= cent THEN v - (v % cent) + cent ELSE v - (v % cent)

C10_MalformedItemUnrecognized ==
    \A d \in Dispatches :
        LET e == EventOf(d)
        IN  (IsPayloadPostback(e, <<"i", "t", "e", "m">>) /\ Len(PayloadFields(e)) < 4) =>
                d.sends = <<textMessage(Get(e.sender),
                                        "Sorry, we couldn't understand your message")>>

\* a step in which the callback of one send runs
CallbackRuns == pc = "responded" /\ inflight > 0 /\ pc' # "listening" /\ inflight' < inflight

\* C11: when a send fails, by a transport error or by an answer other than
\* 200, its completion handler only logs: the send is not made again, the
\* process keeps running and the request and what was sent for it are left
\* as they were.
C11_FailedSendOnlyLogged ==
    [][CallbackRuns =>
          /\ pc' = pc
          /\ outbox' = outbox
          /\ <<req, res, dispatched>>' = <<req, res, dispatched>>]_vars

\* the route handler of a page subscription has returned
PageHandled == req.method = "POST" /\ req.body.object = "page" /\ pc \in {"responded", "crashed"}

\* C12: a POST /webhook with object "page" is acknowledged with 200 once its
\* last event has issued its sends and without waiting for them: the 200 is
\* out before the callback of any send of the request runs, and it is out
\* even when a send never completes.
C12_AckedBeforeCallbacks ==
    (PageHandled /\ Len(outbox) > 0) =>
        /\ res.status = 200
        /\ inflight <= Len(outbox)

\* the handler of the event does not read the ids, or finds them
HandledWithoutThrow(e) ==
    \/ e.optin = None /\ e.message = None /\ e.postback = None
    \/ HasIds(e)

\* what holds of the answer and the callbacks: whatever the answer is, it is
\* out before the first callback runs, with every send still in flight, and it
\* is 200 when no handler threw
AnsweredBeforeCallbacks ==
    /\ inflight < Len(outbox) => res.status # 0
    /\ [][pc = "route" => (res'.status # 0 <=> pc' = "responded") /\ inflight' = Len(outbox')]_vars
    /\ []((PageHandled /\ \A d \in Dispatches : HandledWithoutThrow(EventOf(d)))
             => res.status = 200)

\* C13: every POST /webhook that passes signature verification gets an HTTP
\* response from the handler, whatever the object field of its body: once
\* the handler has returned, nothing else answers the request, so the
\* response is out by then.
C13_VerifiedPostAnswered ==
    (req.method = "POST" /\ pc \in {"responded", "hung", "crashed"}) => res.status # 0

Next ==
    \/ GetWebhook
    \/ PostArrives
    \/ BodyParserJson
    \/ PostWebhook
    \/ SendCompletes
    \/ Listen

Spec == Init /\ [][Next]_vars

====
